---- MODULE Spec2Model ----
(***************************************************************************)
(* Wind-down orchestration of scripts/wind_down.py: the re-entrancy guard   *)
(* (acquire_lock / release_lock), the decision pipeline                     *)
(* (get_wind_down_data), the extension hook, the reporter and main().       *)
(*                                                                         *)
(* Four specifications share the variables:                                 *)
(*   Spec       one invocation of main(), every step of the pipeline, in an *)
(*              environment whose lock file is absent, left over, or held   *)
(*              by another invocation that is inside its own pass;          *)
(*   GuardSpec  NumProcs concurrent invocations on one workspace, every     *)
(*              step of acquire_lock / release_lock interleaved, the body   *)
(*              of the try block of main() taken as one step.               *)
(*   FunctionSpec  format_duration and the text fallback of                 *)
(*              run_sanity_check, each called on one argument;              *)
(*   WriterSpec create_session_file executed by NumProcs passes at once.    *)
(* The platforms modelled are the one with fcntl.flock and, in GuardSpec,    *)
(* the one with no locking primitive at all (the mtime heuristic).          *)
(***************************************************************************)
EXTENDS Integers, Sequences, FiniteSets, TLC

\* ------------------------------------------------------------------ bounds
NumProcs == 3        \* concurrent invocations of GuardSpec
MaxDepth == 5        \* depth of the deepest directory an invocation starts in
WsDepth == 1         \* depth of the one directory that holds the marker .aget/
MaxPending == 1      \* plan files in planning/ that match PROJECT_PLAN_*.md
MaxTicks == 1        \* advances of the wall clock in one behaviour
MaxMarkers == 1      \* success markers, and failure markers, in the sanity program's text
MaxWords == 2        \* words of the sanity program's text, when a function is called alone
MaxSteps == 120      \* durations tried reach from -45 * MaxSteps to 45 * MaxSteps seconds
MaxCalls == 2        \* calls of one function on one argument
MaxBlocks == 2       \* blocks of the longest session file content

\* ------------------------------------------------------- program constants
COOLDOWN == 300      \* seconds: the fallback treats a younger lock file as held
SEARCH_LEVELS == 4   \* directories find_agent_root examines
EXIT_CLEAN == 0
EXIT_WARNINGS == 1
EXIT_ERRORS == 2
EXIT_CONFIG == 3
EXIT_BLOCKED == 4
EXIT_TRACEBACK == 1  \* sys.exit(main()) when main() raises: the interpreter's status
None == 0            \* Python's None for an inode, a process or a file object
NotFound == -1       \* find_agent_root's None (0 is the depth of the root directory)
NoExit == -1         \* the process has not exited
Unset == -1          \* Python's None where 0 is a value (a depth, a minute)

Procs == 1..NumProcs
Main == 1            \* the invocation Spec follows
Holder == 2          \* in Spec: another invocation, inside its pass, holding the lock
Inodes == 1..(NumProcs + 1)
Platforms == {"fcntl", "none"}
Depths == 0..MaxDepth

VARIABLES
    platform,    \* which locking primitive the interpreter can import
    clock,       \* time.time(), in seconds
    ticks,       \* how often the clock advanced (bounded by MaxTicks)
    dirent,      \* inode the path .aget/.wind_down.lock names, or None
    flock,       \* inode -> process holding the exclusive flock on it, or None
    content,     \* inode -> pid of the owner marker written in it, None if empty
    mtime,       \* inode -> st_mtime
    pc,          \* process -> where it is in main()
    args,        \* process -> parsed command line
    agent_path,  \* process -> depth of the workspace root found, or NotFound
    lock_file,   \* process -> its global _lock_file is set
    lock_fd,     \* process -> inode its global _lock_fd is open on, or None
    exc,         \* process -> an exception is propagating out of the try block
    exit_code,   \* process -> exit status, NoExit while running
    trace,       \* process -> the calls main() has made, in order
    data,        \* Main's ResultRecord, as get_wind_down_data assembles it and
                 \* call_extension_hook hands it on
    piped,       \* what get_wind_down_data returned to main(), or NoRecord
    reported,    \* what the Reporter printed, or NoRecord
    hooked,      \* what scripts/wind_down_ext.py did when Main called the hook
    stderr,      \* what call_extension_hook printed to stderr for Main
    start_dir,   \* process -> the directory find_agent_root is searching from,
                 \* Unset outside the call
    lock_seen,   \* process -> the lock file as acquire_lock found it when called
    met,         \* what the sanity program and the Handoff Writer did to Main
    sessions,    \* sessions/: session id (a minute) -> the blocks of that file
    session_id,  \* process -> the minute its create_session_file read, or Unset
    draft,       \* process -> the content its create_session_file is writing
    call,        \* a call of a function that reads no state: its name and argument
    returned     \* what that call returned, NoRecord before it returns

vars == <<platform, clock, ticks, dirent, flock, content, mtime, pc, args,
          agent_path, lock_file, lock_fd, exc, exit_code, trace, data,
          piped, reported, hooked, stderr, start_dir, lock_seen, met, sessions,
          session_id, draft, call, returned>>

fsvars == <<dirent, flock, content, mtime>>
lockvars == <<dirent, flock, content, mtime, lock_file, lock_fd>>
pipevars == <<data, piped, reported, hooked, stderr>>
envvars == <<platform, clock, ticks>>
sessvars == <<sessions, session_id, draft>>
fnvars == <<call, returned>>
auxvars == <<start_dir, lock_seen, met, sessvars, fnvars>>

\* ------------------------------------------------------------ file system
\* An inode lives while the lock path names it or a process has it open.
Referenced(i, d, fds) == d = i \/ \E p \in Procs : fds[p] = i

\* The kernel forgets what it knew of an inode with no reference left.
Reap(f, blank, d, fds) == [i \in Inodes |-> IF Referenced(i, d, fds) THEN f[i] ELSE blank]

\* The inode open() creates when the path does not exist.
NewInode == CHOOSE i \in Inodes : ~Referenced(i, dirent, lock_fd) /\ \A j \in Inodes : ~Referenced(j, dirent, lock_fd) => i <= j

Append1(p, e) == [trace EXCEPT ![p] = Append(@, e)]

Goto(p, l) == [pc EXCEPT ![p] = l]

\* ------------------------------------------------------------------- time
TickSteps == {COOLDOWN - 1, COOLDOWN}

\* The wall clock advances between two steps of the processes.  Only the
\* fallback heuristic of acquire_lock reads it: against the mtime the lock
\* file had before open() and against the one open() gave it.
Tick ==
    /\ platform = "none"
    /\ \E p \in Procs : pc[p] \in {"acquire", "acq_lock"}
    /\ ticks < MaxTicks
    /\ \E d \in TickSteps : clock' = clock + d
    /\ ticks' = ticks + 1
    /\ UNCHANGED <<platform, dirent, flock, content, mtime, pc, args, agent_path,
                   lock_file, lock_fd, exc, exit_code, trace, data, piped,
                   reported, hooked, stderr, auxvars>>

\* ------------------------------------------------------ Workspace Locator
Parent(d) == IF d = 0 THEN 0 ELSE d - 1

HasMarker(d) == d = WsDepth

RECURSIVE FindFrom(_, _)
FindFrom(path, left) ==
    IF left = 0 THEN NotFound
    ELSE IF HasMarker(path) THEN path
    ELSE IF Parent(path) = path THEN NotFound
    ELSE FindFrom(Parent(path), left - 1)

\* Mutant: the search goes on up to the filesystem root.
find_agent_root_Unbounded(start_path) == FindFrom(start_path, MaxDepth + 2)

find_agent_root(start_path) == FindFrom(start_path, SEARCH_LEVELS)

\* ------------------------------------------------------------------ main
\* Command lines.  GuardArgs leaves the options that only the pipeline
\* reads at their defaults.
AllArgs == [force : BOOLEAN, verify : BOOLEAN, skip_sanity : BOOLEAN,
            verbose : BOOLEAN, json : BOOLEAN]

GuardArgs == {a \in AllArgs : ~a.verify /\ ~a.skip_sanity /\ ~a.verbose /\ ~a.json}

NoArgs == [force |-> FALSE, verify |-> FALSE, skip_sanity |-> FALSE,
           verbose |-> FALSE, json |-> FALSE]

\* parse_args, and --verify mode, which returns before anything else runs.
Invoke(p, argspace) ==
    /\ pc[p] = "idle"
    /\ \E a \in argspace :
        /\ args' = [args EXCEPT ![p] = a]
        /\ IF a.verify
           THEN /\ \E code \in {EXIT_CLEAN, EXIT_WARNINGS} :
                       exit_code' = [exit_code EXCEPT ![p] = code]
                /\ pc' = Goto(p, "done")
           ELSE /\ pc' = Goto(p, "find_root")
                /\ UNCHANGED exit_code
    /\ UNCHANGED <<envvars, auxvars, lockvars, agent_path, exc, trace, pipevars>>

\* agent_path = find_agent_root(args.dir); not found: return 3.
FindRoot(p) ==
    /\ pc[p] = "find_root"
    /\ \E start \in Depths :
        LET root == find_agent_root(start) IN
        /\ agent_path' = [agent_path EXCEPT ![p] = root]
        /\ IF root = NotFound
           THEN /\ exit_code' = [exit_code EXCEPT ![p] = EXIT_CONFIG]
                /\ pc' = Goto(p, "done")
           ELSE /\ pc' = Goto(p, "guard")
                /\ UNCHANGED exit_code
    /\ trace' = Append1(p, "find_agent_root")
    /\ UNCHANGED <<envvars, auxvars, lockvars, args, exc, pipevars>>

\* Mutant: the guard is entered whatever --force says.
ReentrancyGuard_IgnoresForce(p) ==
    /\ pc[p] = "guard"
    /\ pc' = Goto(p, "acquire")
    /\ trace' = Append1(p, "acquire_lock")
    /\ UNCHANGED <<envvars, auxvars, lockvars, args, agent_path, exc, exit_code, pipevars>>

\* Mutant: the pass starts without the guard.
ReentrancyGuard_NeverAcquires(p) ==
    /\ pc[p] = "guard"
    /\ pc' = Goto(p, "try")
    /\ UNCHANGED <<envvars, auxvars, lockvars, args, agent_path, exc, exit_code, trace, pipevars>>

\* if not args.force: acquire_lock(agent_path)
ReentrancyGuard(p) ==
    /\ pc[p] = "guard"
    /\ IF args[p].force
       THEN /\ pc' = Goto(p, "try")
            /\ UNCHANGED trace
       ELSE /\ pc' = Goto(p, "acquire")
            /\ trace' = Append1(p, "acquire_lock")
    /\ UNCHANGED <<envvars, auxvars, lockvars, args, agent_path, exc, exit_code, pipevars>>

\* ----------------------------------------------------------- acquire_lock
\* _lock_file = ...; _lock_fd = open(_lock_file, 'w'): creates the file or
\* truncates the one the path names; an OSError makes acquire_lock return False.
\* The lock file as a call of acquire_lock finds it, before its open().
LockFileSeen ==
    IF dirent = None THEN "absent"
    ELSE IF clock - mtime[dirent] < COOLDOWN THEN "recent"
    ELSE "stale"

AcquireOpen(p) ==
    /\ pc[p] = "acquire"
    /\ lock_file' = [lock_file EXCEPT ![p] = TRUE]
    /\ lock_seen' = [lock_seen EXCEPT ![p] = LockFileSeen]
    /\ \/ LET i == IF dirent = None THEN NewInode ELSE dirent IN
          /\ dirent' = i
          /\ content' = [content EXCEPT ![i] = None]
          /\ mtime' = [mtime EXCEPT ![i] = clock]
          /\ lock_fd' = [lock_fd EXCEPT ![p] = i]
          /\ pc' = Goto(p, "acq_lock")
          /\ UNCHANGED flock
          /\ UNCHANGED trace
       \/ /\ pc' = Goto(p, "blocked")
          /\ trace' = Append1(p, "return False")
          /\ UNCHANGED <<fsvars, lock_fd>>
    /\ UNCHANGED <<envvars, start_dir, met, sessvars, fnvars, args, agent_path, exc,
                   exit_code, pipevars>>

\* What close() of p's descriptor leaves behind.
CloseFd(p) ==
    LET i == lock_fd[p]
        fds == [lock_fd EXCEPT ![p] = None]
        unlocked == [flock EXCEPT ![i] = IF @ = p THEN None ELSE @]
    IN  /\ lock_fd' = fds
        /\ flock' = Reap(unlocked, None, dirent, fds)
        /\ content' = Reap(content, None, dirent, fds)
        /\ mtime' = Reap(mtime, 0, dirent, fds)
        /\ UNCHANGED dirent

\* The fallback: the lock file counts as held while it is younger than COOLDOWN.
RecentLockFile == dirent # None /\ clock - mtime[dirent] < COOLDOWN

\* fcntl.flock(_lock_fd, LOCK_EX | LOCK_NB), or without fcntl and msvcrt the
\* mtime heuristic; when blocked the descriptor is closed and False returned.
AcquireLock(p) ==
    /\ pc[p] = "acq_lock"
    /\ LET i == lock_fd[p]
           blocked == IF platform = "fcntl" THEN flock[i] # None ELSE RecentLockFile
       IN  IF blocked
           THEN /\ CloseFd(p)
                /\ pc' = Goto(p, "blocked")
                /\ trace' = Append1(p, "return False")
           ELSE /\ flock' = IF platform = "fcntl" THEN [flock EXCEPT ![i] = p] ELSE flock
                /\ pc' = Goto(p, "acq_write")
                /\ UNCHANGED <<dirent, content, mtime, lock_fd, trace>>
    /\ UNCHANGED <<envvars, auxvars, args, agent_path, lock_file, exc, exit_code, pipevars>>

\* _lock_fd.write("locked by PID ..."); flush; return True.  A failing write
\* closes the descriptor and returns False.
AcquireWrite(p) ==
    /\ pc[p] = "acq_write"
    /\ \/ LET i == lock_fd[p] IN
          /\ content' = [content EXCEPT ![i] = p]
          /\ mtime' = [mtime EXCEPT ![i] = clock]
          /\ pc' = Goto(p, "try")
          /\ trace' = Append1(p, "return True")
          /\ UNCHANGED <<dirent, flock, lock_fd>>
       \/ /\ CloseFd(p)
          /\ pc' = Goto(p, "blocked")
          /\ trace' = Append1(p, "return False")
    /\ UNCHANGED <<envvars, auxvars, args, agent_path, lock_file, exc, exit_code, pipevars>>

\* Mutant: the BLOCKED message is printed and the pass goes on.
ReturnBlocked_FallsThrough(p) ==
    /\ pc[p] = "blocked"
    /\ pc' = Goto(p, "try")
    /\ UNCHANGED <<envvars, auxvars, lockvars, args, agent_path, exc, exit_code, trace, pipevars>>

\* acquire_lock returned False: main prints BLOCKED and returns 4.
ReturnBlocked(p) ==
    /\ pc[p] = "blocked"
    /\ exit_code' = [exit_code EXCEPT ![p] = EXIT_BLOCKED]
    /\ pc' = Goto(p, "done")
    /\ UNCHANGED <<envvars, auxvars, lockvars, args, agent_path, exc, trace, pipevars>>

\* ----------------------------------------------------------- release_lock
\* Mutant: release_lock at the end of the try block instead of in finally.
Finally_SkipsOnError(p) ==
    /\ pc[p] = "finally"
    /\ IF args[p].force \/ exc[p]
       THEN /\ pc' = Goto(p, "exit")
            /\ UNCHANGED trace
       ELSE /\ pc' = Goto(p, "rel_unlock")
            /\ trace' = Append1(p, "release_lock")
    /\ UNCHANGED <<envvars, auxvars, lockvars, args, agent_path, exc, exit_code, pipevars>>

\* finally: if not args.force: release_lock()
Finally(p) ==
    /\ pc[p] = "finally"
    /\ IF args[p].force
       THEN /\ pc' = Goto(p, "exit")
            /\ UNCHANGED trace
       ELSE /\ pc' = Goto(p, "rel_unlock")
            /\ trace' = Append1(p, "release_lock")
    /\ UNCHANGED <<envvars, auxvars, lockvars, args, agent_path, exc, exit_code, pipevars>>

\* fcntl.flock(_lock_fd, LOCK_UN); without fcntl the ImportError is passed over.
ReleaseUnlock(p) ==
    /\ pc[p] = "rel_unlock"
    /\ flock' = IF lock_fd[p] # None /\ platform = "fcntl"
                THEN [flock EXCEPT ![lock_fd[p]] = IF @ = p THEN None ELSE @]
                ELSE flock
    /\ pc' = Goto(p, "rel_close")
    /\ UNCHANGED <<envvars, auxvars, dirent, content, mtime, lock_file, lock_fd, args,
                   agent_path, exc, exit_code, trace, pipevars>>

\* _lock_fd.close(); _lock_fd = None
ReleaseClose(p) ==
    /\ pc[p] = "rel_close"
    /\ IF lock_fd[p] # None THEN CloseFd(p) ELSE UNCHANGED <<fsvars, lock_fd>>
    /\ pc' = Goto(p, "rel_unlink")
    /\ UNCHANGED <<envvars, auxvars, lock_file, args, agent_path, exc, exit_code, trace, pipevars>>

\* if _lock_file and _lock_file.exists(): _lock_file.unlink(), any error swallowed.
ReleaseUnlink(p) ==
    /\ pc[p] = "rel_unlink"
    /\ \/ /\ lock_file[p] /\ dirent # None
          /\ dirent' = None
          /\ flock' = Reap(flock, None, None, lock_fd)
          /\ content' = Reap(content, None, None, lock_fd)
          /\ mtime' = Reap(mtime, 0, None, lock_fd)
       \/ UNCHANGED fsvars
    /\ pc' = Goto(p, "exit")
    /\ UNCHANGED <<envvars, auxvars, lock_file, lock_fd, args, agent_path, exc, exit_code,
                   trace, pipevars>>

\* sys.exit(main()): the value main returned, or the traceback's status.
Exit(p) ==
    /\ pc[p] = "exit"
    /\ exit_code' = [exit_code EXCEPT ![p] = IF exc[p] THEN EXIT_TRACEBACK ELSE @]
    /\ pc' = Goto(p, "done")
    /\ UNCHANGED <<envvars, auxvars, lockvars, args, agent_path, exc, trace, pipevars>>

\* ------------------------------------------- the try block, as one step
BodyCodes == {EXIT_CLEAN, EXIT_WARNINGS, EXIT_ERRORS}

\* get_wind_down_data, call_extension_hook, the output and the return of the
\* status-derived code, or an exception raised on the way.
Orchestrate(p) ==
    /\ pc[p] = "try"
    /\ \/ \E code \in BodyCodes :
            /\ exit_code' = [exit_code EXCEPT ![p] = code]
            /\ UNCHANGED exc
       \/ /\ exc' = [exc EXCEPT ![p] = TRUE]
          /\ UNCHANGED exit_code
    /\ trace' = Append1(p, "body")
    /\ pc' = Goto(p, "finally")
    /\ UNCHANGED <<envvars, auxvars, lockvars, args, agent_path, pipevars>>

\* ------------------------------------------------------------ ResultRecord
NoRecord == [absent |-> TRUE]

\* A status the sanity program printed that is no string (null, a number).
NonString == "<non-string>"

\* data['sanity_check'] = {} before the sanity collector ran.
EmptyDict == "<empty dict>"

SanityReport(st, passed, total, warns, errs) ==
    [status |-> st, checks_passed |-> passed, checks_total |-> total,
     warnings |-> warns, errors |-> errs]

\* An Optional[int]: None, or the integer.
Nothing == << >>

Some(x) == <<x>>

\* The dict get_wind_down_data starts from.
InitialData ==
    [started |-> "None", duration_seconds |-> Nothing,
     sanity_check |-> SanityReport(EmptyDict, 0, 0, 0, 0),
     pending_work |-> << >>, uncommitted_changes |-> << >>,
     session_file |-> "None", mandatory_handoff |-> FALSE, clean_close |-> TRUE,
     agent_name |-> "None", extension_output |-> ""]

\* --------------------------------------------------------- Fact Collectors
\* What .aget/session_state.json can hold.
SessionStateKinds ==
    {"missing", "invalid_json", "undecodable", "not_object", "no_current_session",
     "current_not_object", "no_started", "started_bad_string", "started_not_string",
     "started_naive", "started_aware"}

\* now - started, in seconds, for a started that parses.
Durations == {5400}

\* Lines 364-372: load_json_file gives its default for a missing or malformed
\* file; .get on what is no dict, fromisoformat of what is no str and the
\* subtraction of an aware from a naive datetime raise and nothing catches them.
SessionRaises(kind) ==
    kind \in {"undecodable", "not_object", "current_not_object",
              "started_not_string", "started_aware"}

SessionStarted(kind) ==
    IF kind \in {"started_bad_string", "started_not_string", "started_naive", "started_aware"}
    THEN kind ELSE "None"

SessionDuration(kind, elapsed) == IF kind = "started_naive" THEN Some(elapsed) ELSE Nothing

\* What running the sanity program can give.
SanityStatuses == {"healthy", "warning", "error", "degraded", NonString}

SanityOutcomes ==
    [kind : {"no_script", "run_error", "json_not_object"}, status : {"n/a"}, passed : {0}, failed : {0}]
    \cup [kind : {"json"}, status : SanityStatuses, passed : {0}, failed : {0}]
    \cup [kind : {"json_no_status"}, status : {"n/a"}, passed : {0}, failed : {0}]
    \cup [kind : {"text"}, status : {"n/a"}, passed : 0..MaxMarkers, failed : 0..MaxMarkers]

\* The structured report: summary.passed, total, warnings, errors as printed.
JsonSummary == [passed |-> 2, total |-> 2, warnings |-> 0, errors |-> 0]

\* Mutant: the total leaves the failures out.
TextFallback_TotalIsPassed(passed, failed) ==
    SanityReport(IF failed = 0 THEN "healthy" ELSE "warning", passed, passed, failed, 0)

\* Lines 220-230: the text fallback.
TextFallback(passed, failed) ==
    SanityReport(IF failed = 0 THEN "healthy" ELSE "warning", passed, passed + failed, failed, 0)

\* str.count: the occurrences of a marker in the text, taken word by word.
RECURSIVE Occurrences(_, _)
Occurrences(stdout, marker) ==
    IF stdout = << >> THEN 0
    ELSE (IF Head(stdout) = marker THEN 1 ELSE 0) + Occurrences(Tail(stdout), marker)

\* Lines 221-230, from result.stdout.
ParseText(stdout) ==
    TextFallback(Occurrences(stdout, "[+]") + Occurrences(stdout, "PASS"),
                 Occurrences(stdout, "[-]") + Occurrences(stdout, "FAIL"))

\* Lines 231-241.
ExecutionError == SanityReport("error", 0, 0, 0, 1)

run_sanity_check(o) ==
    CASE o.kind = "no_script" -> SanityReport("unknown", 0, 0, 0, 0)
      [] o.kind = "run_error" -> ExecutionError
      [] o.kind = "json_not_object" -> ExecutionError
      [] o.kind = "json" -> SanityReport(o.status, JsonSummary.passed, JsonSummary.total,
                                         JsonSummary.warnings, JsonSummary.errors)
      [] o.kind = "json_no_status" -> SanityReport("unknown", 0, 0, 0, 0)
      [] o.kind = "text" -> TextFallback(o.passed, o.failed)

Skipped == SanityReport("skipped", 0, 0, 0, 0)

\* dict.get('status', 'unknown')
StatusOf(report) == IF report.status = EmptyDict THEN "unknown" ELSE report.status

\* planning/PROJECT_PLAN_*.md: each file's content, as read_text meets it.
PlanKinds == {"in_progress", "not_started", "unreadable", "undecodable"}

PlanDirs == UNION {[1..n -> PlanKinds] : n \in 0..MaxPending}

PlanName(k) == <<"PROJECT_PLAN", k>>

RECURSIVE ScanFrom(_, _)
ScanFrom(files, k) ==
    IF k > Len(files) THEN << >>
    ELSE IF files[k] = "in_progress" THEN <<PlanName(k)>> \o ScanFrom(files, k + 1)
    ELSE ScanFrom(files, k + 1)

\* Lines 250-266: IOError is passed over, UnicodeDecodeError is not caught.
scan_pending_work(files) == ScanFrom(files, 1)

ScanRaises(files) == \E k \in 1..Len(files) : files[k] = "undecodable"

\* git status --porcelain.
VcsOutcomes == {"clean", "changes", "not_a_repo", "timeout", "no_git", "not_launchable"}

\* Lines 269-281: TimeoutExpired and FileNotFoundError are caught, another
\* OSError of subprocess.run is not.
get_uncommitted_changes(o) == IF o = "changes" THEN <<"M file">> ELSE << >>

VcsRaises(o) == o = "not_launchable"

\* ------------------------------------------------------- Decision Pipeline
\* An exception leaves the try block of main() for its finally clause.
Raise(p) ==
    /\ exc' = [exc EXCEPT ![p] = TRUE]
    /\ pc' = Goto(p, "finally")

\* Lines 344-372: the initial dict, then L021 check 1.
GetSessionState(p) ==
    /\ pc[p] = "try"
    /\ trace' = Append1(p, "get_session_state")
    /\ \E kind \in SessionStateKinds, elapsed \in Durations :
        /\ data' = [InitialData EXCEPT !.started = SessionStarted(kind),
                                       !.duration_seconds = SessionDuration(kind, elapsed)]
        /\ IF SessionRaises(kind)
           THEN Raise(p)
           ELSE pc' = Goto(p, "sanity") /\ UNCHANGED exc
    /\ UNCHANGED <<envvars, auxvars, lockvars, args, agent_path, exit_code, piped, reported, hooked, stderr>>

\* Lines 374-387: L021 check 2.
RunSanity(p) ==
    /\ pc[p] = "sanity"
    /\ IF args[p].skip_sanity
       THEN /\ data' = [data EXCEPT !.sanity_check = Skipped]
            /\ UNCHANGED <<trace, met>>
       ELSE /\ \E o \in SanityOutcomes :
                   /\ data' = [data EXCEPT !.sanity_check = run_sanity_check(o)]
                   /\ met' = [met EXCEPT !.sanity = o.kind]
            /\ trace' = Append1(p, "run_sanity_check")
    /\ pc' = Goto(p, "pending")
    /\ UNCHANGED <<envvars, start_dir, lock_seen, sessvars, fnvars, lockvars, args,
                   agent_path, exc, exit_code, piped, reported, hooked, stderr>>

\* Lines 389-390: L021 check 3.
ScanPending(p) ==
    /\ pc[p] = "pending"
    /\ trace' = Append1(p, "scan_pending_work")
    /\ \E files \in PlanDirs :
        IF ScanRaises(files)
        THEN Raise(p) /\ UNCHANGED data
        ELSE /\ data' = [data EXCEPT !.pending_work = scan_pending_work(files)]
             /\ pc' = Goto(p, "vcs")
             /\ UNCHANGED exc
    /\ UNCHANGED <<envvars, auxvars, lockvars, args, agent_path, exit_code, piped, reported, hooked, stderr>>

\* Lines 392-393.
GetUncommitted(p) ==
    /\ pc[p] = "vcs"
    /\ trace' = Append1(p, "get_uncommitted_changes")
    /\ \E o \in VcsOutcomes :
        IF VcsRaises(o)
        THEN Raise(p) /\ UNCHANGED data
        ELSE /\ data' = [data EXCEPT !.uncommitted_changes = get_uncommitted_changes(o)]
             /\ pc' = Goto(p, "handoff")
             /\ UNCHANGED exc
    /\ UNCHANGED <<envvars, auxvars, lockvars, args, agent_path, exit_code, piped, reported, hooked, stderr>>

\* Line 300: the session id is the date and the minute of datetime.now().
Minute(t) == t \div 60

\* A session file's content, in blocks, each tagged with the process whose
\* create_session_file composed it (its notes, its pending work).
Blocks(p, n) == [i \in 1..n |-> p]

\* Line 333: write_text on nobody else's file leaves exactly the content.
WriteText(files, id, text) == (id :> text) @@ files

\* What create_session_file can meet.
WriterOutcomes == {"written", "mkdir_fails", "version_not_object", "write_fails"}

SessionPath == "sessions/session_<date>_<HHMM>.md"

\* Lines 284-336: the path on success, None when mkdir or write_text fails.
create_session_file(w) == IF w = "written" THEN SessionPath ELSE "None"

\* version_data.get(...) on a version.json that holds no object.
WriterRaises(w) == w = "version_not_object"

\* Mutant: one pending plan is not enough to trigger the handoff.
HandoffTriggered_MoreThanOne(pending) == Len(pending) > 1

\* Line 396: if data['pending_work'].
HandoffTriggered(pending) == pending # << >>

\* Lines 395-400: CAP-SESSION-005.
MandatoryHandoff(p) ==
    /\ pc[p] = "handoff"
    /\ IF HandoffTriggered(data.pending_work)
       THEN /\ trace' = [trace EXCEPT ![p] = @ \o <<"handoff_rule", "create_session_file">>]
            /\ \E w \in WriterOutcomes :
                /\ met' = [met EXCEPT !.writer = w]
                /\ sessions' = IF w = "written"
                               THEN WriteText(sessions, Minute(clock), Blocks(p, 1))
                               ELSE sessions
                /\ IF WriterRaises(w)
                   THEN /\ data' = [data EXCEPT !.mandatory_handoff = TRUE]
                        /\ Raise(p)
                   ELSE /\ data' = [data EXCEPT !.mandatory_handoff = TRUE,
                                                !.session_file = create_session_file(w)]
                        /\ pc' = Goto(p, "clean_close")
                        /\ UNCHANGED exc
       ELSE /\ trace' = Append1(p, "handoff_rule")
            /\ pc' = Goto(p, "clean_close")
            /\ UNCHANGED <<data, exc, met, sessions>>
    /\ UNCHANGED <<envvars, start_dir, lock_seen, session_id, draft, fnvars, lockvars,
                   args, agent_path, exit_code, piped, reported, hooked, stderr>>

\* Mutant: a warning spoils the clean close too.
CleanClose_OnWarningToo(report, before) ==
    IF StatusOf(report) \in {"error", "warning"} THEN FALSE ELSE before

\* Lines 402-405.
CleanClose(report, before) == IF StatusOf(report) = "error" THEN FALSE ELSE before

\* .aget/version.json, read for the display name.
VersionKinds == {"named", "missing", "not_object"}

AgentName(v) == IF v = "named" THEN "agent_name" ELSE "agent_path.name"

\* Lines 402-412: the clean-close rule, the identity, return data.
FinishData(p) ==
    /\ pc[p] = "clean_close"
    /\ \E v \in VersionKinds :
        LET closed == [data EXCEPT !.clean_close = CleanClose(data.sanity_check, @)] IN
        IF v = "not_object"
        THEN /\ data' = closed
             /\ Raise(p)
             /\ UNCHANGED piped
        ELSE /\ data' = [closed EXCEPT !.agent_name = AgentName(v)]
             /\ piped' = data'
             /\ pc' = Goto(p, "hook")
             /\ UNCHANGED exc
    /\ UNCHANGED <<envvars, auxvars, lockvars, args, agent_path, exit_code, trace, reported, hooked, stderr>>

\* -------------------------------------------------- Extension Hook Invoker
\* scripts/wind_down_ext.py: absent, failing to load, without post_wind_down,
\* or with a post_wind_down that returns a dict (the record with a field
\* added, or with the status rewritten), returns something else, or raises.
\* inplace: post_wind_down wrote its field into the dict it was handed.
HookKinds ==
    {"absent", "load_raises", "no_entry_point", "returns_dict", "returns_rewritten",
     "returns_non_dict", "call_raises"}

HookCalled(h) == h.kind \in {"returns_dict", "returns_rewritten", "returns_non_dict", "call_raises"}

HookOutcomes == {h \in [kind : HookKinds, inplace : BOOLEAN] : h.inplace => HookCalled(h)}

Augmented(d) == [d EXCEPT !.extension_output = "ext"]

\* Lines 425-443: the record main() goes on with.
call_extension_hook(d, h) ==
    LET handed == IF h.inplace THEN Augmented(d) ELSE d IN
    CASE h.kind = "returns_dict" -> Augmented(d)
      [] h.kind = "returns_rewritten" -> [Augmented(d) EXCEPT !.sanity_check.status = "warning"]
      [] OTHER -> handed

\* Lines 438-441: what the hook invoker prints to stderr.
HookMessages(h, verbose) ==
    CASE h.kind \in {"load_raises", "call_raises"} -> <<"Warning: Extension hook failed">>
      [] h.kind = "returns_non_dict" /\ verbose -> <<"Extension hook returned non-dict, ignoring">>
      [] OTHER -> << >>

\* Line 652.
CallExtensionHook(p) ==
    /\ pc[p] = "hook"
    /\ trace' = Append1(p, "call_extension_hook")
    /\ \E h \in HookOutcomes :
        /\ data' = call_extension_hook(data, h)
        /\ hooked' = h
        /\ stderr' = HookMessages(h, args[p].verbose)
    /\ pc' = Goto(p, "report")
    /\ UNCHANGED <<envvars, auxvars, lockvars, args, agent_path, exc, exit_code, piped, reported>>

\* ---------------------------------------------------------------- Reporter
\* Lines 446-459.  // and % of Python round towards minus infinity, as \div
\* and % do.
format_duration(seconds) ==
    IF seconds = Nothing THEN "unknown"
    ELSE LET s == seconds[1]
             hours == s \div 3600
             minutes == (s % 3600) \div 60
         IN  IF hours > 0 THEN ToString(hours) \o "h " \o ToString(minutes) \o "m"
             ELSE IF minutes > 0 THEN ToString(minutes) \o "m"
             ELSE ToString(s) \o "s"

\* Lines 473-486: status.upper() of a status that is no string raises.
HumanOutputRaises(d) == StatusOf(d.sanity_check) = NonString

\* Lines 657-661: json.dumps(data, default=str) or format_human_output(data).
Report(p) ==
    /\ pc[p] = "report"
    /\ trace' = Append1(p, "report")
    /\ IF ~args[p].json /\ HumanOutputRaises(data)
       THEN Raise(p) /\ UNCHANGED reported
       ELSE /\ reported' = data
            /\ pc' = Goto(p, "exit_code")
            /\ UNCHANGED exc
    /\ UNCHANGED <<envvars, auxvars, lockvars, args, agent_path, exit_code, data, piped, hooked, stderr>>

\* Lines 667-673.
StatusExitCode(report) ==
    IF StatusOf(report) = "error" THEN EXIT_ERRORS
    ELSE IF StatusOf(report) = "warning" THEN EXIT_WARNINGS
    ELSE EXIT_CLEAN

ReturnCode(p) ==
    /\ pc[p] = "exit_code"
    /\ exit_code' = [exit_code EXCEPT ![p] = StatusExitCode(data.sanity_check)]
    /\ pc' = Goto(p, "finally")
    /\ UNCHANGED <<envvars, auxvars, lockvars, args, agent_path, exc, trace, pipevars>>

\* Line 613, in two steps: find_agent_root is entered with args.dir (or the
\* current directory) as its start_path, and returns.
EnterFindRoot(p) ==
    /\ pc[p] = "find_root"
    /\ \E start \in Depths : start_dir' = [start_dir EXCEPT ![p] = start]
    /\ pc' = Goto(p, "locating")
    /\ UNCHANGED <<envvars, lock_seen, met, sessvars, fnvars, lockvars, args, agent_path,
                   exc, exit_code, trace, pipevars>>

ReturnFindRoot(p) ==
    /\ pc[p] = "locating"
    /\ LET root == find_agent_root(start_dir[p]) IN
        /\ agent_path' = [agent_path EXCEPT ![p] = root]
        /\ IF root = NotFound
           THEN /\ exit_code' = [exit_code EXCEPT ![p] = EXIT_CONFIG]
                /\ pc' = Goto(p, "done")
           ELSE /\ pc' = Goto(p, "guard")
                /\ UNCHANGED exit_code
    /\ start_dir' = [start_dir EXCEPT ![p] = Unset]
    /\ trace' = Append1(p, "find_agent_root")
    /\ UNCHANGED <<envvars, lock_seen, met, sessvars, fnvars, lockvars, args, exc, pipevars>>

\* ------------------------------------------------------- one invocation
\* Nothing located, locked, run or written yet; sessions/ holds no file.
NothingMet == [sanity |-> "n/a", writer |-> "n/a"]

AuxInit ==
    /\ start_dir = [p \in Procs |-> Unset]
    /\ lock_seen = [p \in Procs |-> "n/a"]
    /\ met = NothingMet
    /\ sessions = << >>
    /\ session_id = [p \in Procs |-> Unset]
    /\ draft = [p \in Procs |-> << >>]

\* No function is called on its own.
NoCall == call = NoRecord /\ returned = NoRecord

LockStates == {"absent", "left_over", "held"}

\* The lock file Main finds: absent; left over, empty, by passes that are
\* gone; or held by Holder, which is inside its own pass.
Init ==
    /\ platform = "fcntl"
    /\ clock = 0
    /\ ticks = 0
    /\ \E l \in LockStates :
        /\ dirent = IF l = "absent" THEN None ELSE 1
        /\ flock = [i \in Inodes |-> IF l = "held" /\ i = 1 /\ platform = "fcntl" THEN Holder ELSE None]
        /\ content = [i \in Inodes |-> IF l = "held" /\ i = 1 THEN Holder ELSE None]
        /\ pc = [p \in Procs |-> IF l = "held" /\ p = Holder THEN "try" ELSE "idle"]
        /\ lock_file = [p \in Procs |-> l = "held" /\ p = Holder]
        /\ lock_fd = [p \in Procs |-> IF l = "held" /\ p = Holder THEN 1 ELSE None]
        /\ agent_path = [p \in Procs |-> IF l = "held" /\ p = Holder THEN WsDepth ELSE NotFound]
        /\ trace = [p \in Procs |-> IF l = "held" /\ p = Holder
                                     THEN <<"find_agent_root", "acquire_lock", "return True">> ELSE << >>]
    /\ mtime = [i \in Inodes |-> 0]
    /\ args = [p \in Procs |-> NoArgs]
    /\ exc = [p \in Procs |-> FALSE]
    /\ exit_code = [p \in Procs |-> NoExit]
    /\ data = NoRecord
    /\ piped = NoRecord
    /\ reported = NoRecord
    /\ hooked = NoRecord
    /\ stderr = << >>
    /\ AuxInit
    /\ NoCall

Next ==
    \/ Invoke(Main, AllArgs)
    \/ EnterFindRoot(Main)
    \/ ReturnFindRoot(Main)
    \/ ReentrancyGuard(Main)
    \/ AcquireOpen(Main)
    \/ AcquireLock(Main)
    \/ AcquireWrite(Main)
    \/ ReturnBlocked(Main)
    \/ GetSessionState(Main)
    \/ RunSanity(Main)
    \/ ScanPending(Main)
    \/ GetUncommitted(Main)
    \/ MandatoryHandoff(Main)
    \/ FinishData(Main)
    \/ CallExtensionHook(Main)
    \/ Report(Main)
    \/ ReturnCode(Main)
    \/ Finally(Main)
    \/ ReleaseUnlock(Main)
    \/ ReleaseClose(Main)
    \/ ReleaseUnlink(Main)
    \/ Exit(Main)

Spec == Init /\ [][Next]_vars

\* ------------------------------------------------- concurrent invocations
GuardInit ==
    /\ platform \in Platforms
    /\ clock = 0
    /\ ticks = 0
    /\ dirent = None
    /\ flock = [i \in Inodes |-> None]
    /\ content = [i \in Inodes |-> None]
    /\ mtime = [i \in Inodes |-> 0]
    /\ pc = [p \in Procs |-> "idle"]
    /\ args = [p \in Procs |-> NoArgs]
    /\ agent_path = [p \in Procs |-> NotFound]
    /\ lock_file = [p \in Procs |-> FALSE]
    /\ lock_fd = [p \in Procs |-> None]
    /\ exc = [p \in Procs |-> FALSE]
    /\ exit_code = [p \in Procs |-> NoExit]
    /\ trace = [p \in Procs |-> << >>]
    /\ data = NoRecord
    /\ piped = NoRecord
    /\ reported = NoRecord
    /\ hooked = NoRecord
    /\ stderr = << >>
    /\ AuxInit
    /\ NoCall

GuardNext ==
    \/ Tick
    \/ \E p \in Procs :
        \/ Invoke(p, GuardArgs)
        \/ FindRoot(p)
        \/ ReentrancyGuard(p)
        \/ AcquireOpen(p)
        \/ AcquireLock(p)
        \/ AcquireWrite(p)
        \/ ReturnBlocked(p)
        \/ Orchestrate(p)
        \/ Finally(p)
        \/ ReleaseUnlock(p)
        \/ ReleaseClose(p)
        \/ ReleaseUnlink(p)
        \/ Exit(p)

GuardSpec == GuardInit /\ [][GuardNext]_vars

\* ------------------------------------------------- functions on their own
\* format_duration and the text fallback of run_sanity_check read nothing but
\* their argument: each is called, up to MaxCalls times, on one argument.
Words == {"[+]", "PASS", "[-]", "FAIL", "ok"}

Stdouts == UNION {[1..n -> Words] : n \in 0..MaxWords}

SecondsTried == {45 * k : k \in -MaxSteps..MaxSteps} \cup {-1, 1, 59, 61, 3599, 3601}

DurationArgs == {Nothing} \cup {Some(s) : s \in SecondsTried}

FunctionInit ==
    /\ platform = "fcntl"
    /\ clock = 0
    /\ ticks = 0
    /\ dirent = None
    /\ flock = [i \in Inodes |-> None]
    /\ content = [i \in Inodes |-> None]
    /\ mtime = [i \in Inodes |-> 0]
    /\ pc = [p \in Procs |-> "idle"]
    /\ args = [p \in Procs |-> NoArgs]
    /\ agent_path = [p \in Procs |-> NotFound]
    /\ lock_file = [p \in Procs |-> FALSE]
    /\ lock_fd = [p \in Procs |-> None]
    /\ exc = [p \in Procs |-> FALSE]
    /\ exit_code = [p \in Procs |-> NoExit]
    /\ trace = [p \in Procs |-> << >>]
    /\ data = NoRecord
    /\ piped = NoRecord
    /\ reported = NoRecord
    /\ hooked = NoRecord
    /\ stderr = << >>
    /\ AuxInit
    /\ returned = NoRecord
    /\ \/ \E seconds \in DurationArgs :
            call = [fn |-> "format_duration", seconds |-> seconds, times |-> 0]
       \/ \E stdout \in Stdouts :
            call = [fn |-> "text_fallback", stdout |-> stdout, times |-> 0]

FormatDuration ==
    /\ call.fn = "format_duration"
    /\ call.times < MaxCalls
    /\ call' = [call EXCEPT !.times = @ + 1]
    /\ returned' = [text |-> format_duration(call.seconds)]
    /\ UNCHANGED <<envvars, lockvars, pc, args, agent_path, exc, exit_code, trace,
                   pipevars, start_dir, lock_seen, met, sessvars>>

SanityTextFallback ==
    /\ call.fn = "text_fallback"
    /\ call.times < MaxCalls
    /\ call' = [call EXCEPT !.times = @ + 1]
    /\ returned' = ParseText(call.stdout)
    /\ UNCHANGED <<envvars, lockvars, pc, args, agent_path, exc, exit_code, trace,
                   pipevars, start_dir, lock_seen, met, sessvars>>

FunctionNext == FormatDuration \/ SanityTextFallback

FunctionSpec == FunctionInit /\ [][FunctionNext]_vars

\* ------------------------------------------------- Handoff Writers at once
\* create_session_file as passes that run at once (--force) or one after the
\* other execute it: read the clock and compose the content; open the file
\* for writing, which creates or truncates it; write the content through the
\* descriptor, at its own offset 0, and close.
MinutePasses ==
    /\ ticks < MaxTicks
    /\ clock' = clock + 60
    /\ ticks' = ticks + 1
    /\ UNCHANGED <<platform, lockvars, pc, args, agent_path, exc, exit_code, trace,
                   pipevars, auxvars>>

\* Lines 299-330.
ComposeSession(p) ==
    /\ pc[p] = "idle"
    /\ session_id' = [session_id EXCEPT ![p] = Minute(clock)]
    /\ \E n \in 1..MaxBlocks : draft' = [draft EXCEPT ![p] = Blocks(p, n)]
    /\ pc' = Goto(p, "write_open")
    /\ UNCHANGED <<envvars, lockvars, args, agent_path, exc, exit_code, trace, pipevars,
                   start_dir, lock_seen, met, sessions, fnvars>>

\* Line 333, write_text: open(session_file, 'w'); IOError: return None.
OpenSession(p) ==
    /\ pc[p] = "write_open"
    /\ \/ /\ sessions' = WriteText(sessions, session_id[p], << >>)
          /\ pc' = Goto(p, "write_flush")
       \/ /\ pc' = Goto(p, "done")
          /\ UNCHANGED sessions
    /\ UNCHANGED <<envvars, lockvars, args, agent_path, exc, exit_code, trace, pipevars,
                   start_dir, lock_seen, met, session_id, draft, fnvars>>

\* What a write of text at offset 0 leaves in a file that held old.
Overwrite(old, text) == text \o SubSeq(old, Len(text) + 1, Len(old))

\* Lines 333-334, write_text: write, close; return the path.
FlushSession(p) ==
    /\ pc[p] = "write_flush"
    /\ sessions' = WriteText(sessions, session_id[p],
                             Overwrite(sessions[session_id[p]], draft[p]))
    /\ pc' = Goto(p, "done")
    /\ UNCHANGED <<envvars, lockvars, args, agent_path, exc, exit_code, trace, pipevars,
                   start_dir, lock_seen, met, session_id, draft, fnvars>>

WriterInit ==
    /\ platform = "fcntl"
    /\ clock = 0
    /\ ticks = 0
    /\ dirent = None
    /\ flock = [i \in Inodes |-> None]
    /\ content = [i \in Inodes |-> None]
    /\ mtime = [i \in Inodes |-> 0]
    /\ pc = [p \in Procs |-> "idle"]
    /\ args = [p \in Procs |-> NoArgs]
    /\ agent_path = [p \in Procs |-> NotFound]
    /\ lock_file = [p \in Procs |-> FALSE]
    /\ lock_fd = [p \in Procs |-> None]
    /\ exc = [p \in Procs |-> FALSE]
    /\ exit_code = [p \in Procs |-> NoExit]
    /\ trace = [p \in Procs |-> << >>]
    /\ data = NoRecord
    /\ piped = NoRecord
    /\ reported = NoRecord
    /\ hooked = NoRecord
    /\ stderr = << >>
    /\ AuxInit
    /\ NoCall

WriterNext ==
    \/ MinutePasses
    \/ \E p \in Procs :
        \/ ComposeSession(p)
        \/ OpenSession(p)
        \/ FlushSession(p)

WriterSpec == WriterInit /\ [][WriterNext]_vars

\* ------------------------------------------------------------ the claims
Called(p, e) == \E k \in 1..Len(trace[p]) : trace[p][k] = e

Count(p, e) == Cardinality({k \in 1..Len(trace[p]) : trace[p][k] = e})

\* b was called only after a had been.
CalledBefore(p, a, b) ==
    \A j \in 1..Len(trace[p]) : trace[p][j] = b => \E k \in 1..(j - 1) : trace[p][k] = a

Collectors == {"get_session_state", "run_sanity_check", "scan_pending_work", "get_uncommitted_changes"}

PassWork == Collectors \cup {"handoff_rule", "create_session_file", "call_extension_hook", "report", "body"}

\* A LockHandle is live from the return of True by acquire_lock to the
\* unlock of release_lock.
LiveLockHandle(p) == ~args[p].force /\ pc[p] \in {"try", "finally", "rel_unlock"}

\* C1: with flock, under every interleaving of the steps of acquire_lock and
\* release_lock of invocations that do not bypass the guard, at most one
\* invocation at a time has a live LockHandle on the workspace.
C1_MutualExclusion ==
    platform = "fcntl" => Cardinality({p \in Procs : LiveLockHandle(p)}) <= 1

\* C2: an invocation whose acquire_lock returned False runs no collector, no
\* Handoff Writer, no hook and no Reporter, builds no record, and exits with 4.
C2_HardStop ==
    \A p \in Procs :
        Called(p, "return False") =>
            /\ \A e \in PassWork : ~Called(p, e)
            /\ pc[p] \in {"blocked", "done"}
            /\ pc[p] = "done" => exit_code[p] = EXIT_BLOCKED
            /\ p = Main => data = NoRecord /\ reported = NoRecord

\* Main was turned away by the lock Holder has, and has exited.
C2_Witness ==
    /\ pc[Main] = "done" /\ ~args[Main].force /\ Called(Main, "return False")
    /\ flock[1] = Holder /\ exit_code[Main] = EXIT_BLOCKED

\* C3: with --force neither acquire_lock nor release_lock runs, no step of
\* the invocation changes the lock file, its inode or its flock, and once
\* the workspace is found the pass goes on to the collectors and never exits
\* with 4, whatever state the lock file is in.
C3_BypassState ==
    args[Main].force =>
        /\ ~Called(Main, "acquire_lock") /\ ~Called(Main, "release_lock")
        /\ lock_fd[Main] = None /\ ~lock_file[Main]
        /\ exit_code[Main] # EXIT_BLOCKED
        /\ pc[Main] \in {"finally", "exit", "done"} /\ agent_path[Main] # NotFound
               => Called(Main, "get_session_state")

C3_Bypass == []C3_BypassState /\ [][args'[Main].force => UNCHANGED lockvars]_vars

\* A forced pass ran to its report while Holder held the lock.
C3_Witness ==
    /\ args[Main].force /\ pc[Main] = "done" /\ Called(Main, "report")
    /\ flock[1] = Holder /\ content[1] = Holder

\* C4: an invocation whose acquire_lock returned True calls release_lock
\* exactly once before it exits, when the pass returns and when a collector,
\* the writer, the hook or the Reporter raises; after it the invocation has
\* no descriptor and no flock, the exit status is the one of the pass, and
\* until it has exited it can always take its next step.
C4_ReleaseOnEveryPath ==
    Called(Main, "return True") =>
        /\ Count(Main, "release_lock") <= 1
        /\ pc[Main] \in {"try", "sanity", "pending", "vcs", "handoff", "clean_close",
                         "hook", "report", "exit_code", "finally"}
               => Count(Main, "release_lock") = 0 /\ lock_fd[Main] # None
        /\ pc[Main] \in {"exit", "done"} =>
               /\ Count(Main, "release_lock") = 1
               /\ lock_fd[Main] = None
               /\ \A i \in Inodes : flock[i] # Main
        /\ pc[Main] = "done" =>
               exit_code[Main] = IF exc[Main] THEN EXIT_TRACEBACK
                                 ELSE StatusExitCode(data.sanity_check)
        /\ pc[Main] # "done" => ENABLED Next

\* Main acquired the lock, a step of its pass raised, and it has exited.
C4_Witness ==
    /\ pc[Main] = "done" /\ exc[Main] /\ Called(Main, "return True")
    /\ Called(Main, "scan_pending_work") /\ ~Called(Main, "report")
    /\ Count(Main, "release_lock") = 1

\* C5: in one invocation without --force the workspace is located before
\* the lock is acquired, the lock is acquired before any collector runs, the
\* collectors run before the mandatory-handoff rule and the Handoff Writer,
\* the hook runs after get_wind_down_data returned and before the Reporter,
\* and release_lock comes last, after the Reporter.
C5_Ordering ==
    LET t == trace[Main] IN
    /\ CalledBefore(Main, "find_agent_root", "acquire_lock")
    /\ \A e \in PassWork :
          /\ CalledBefore(Main, "find_agent_root", e)
          /\ ~args[Main].force => CalledBefore(Main, "return True", e)
    /\ \A e \in {"handoff_rule", "create_session_file"} :
          /\ \A c \in Collectors \ {"run_sanity_check"} : CalledBefore(Main, c, e)
          /\ ~args[Main].skip_sanity => CalledBefore(Main, "run_sanity_check", e)
    /\ CalledBefore(Main, "handoff_rule", "create_session_file")
    /\ CalledBefore(Main, "handoff_rule", "call_extension_hook")
    /\ Called(Main, "call_extension_hook") => piped # NoRecord
    /\ CalledBefore(Main, "call_extension_hook", "report")
    /\ Called(Main, "release_lock") => t[Len(t)] = "release_lock"
    /\ pc[Main] = "done" /\ Called(Main, "return True") =>
          /\ t[Len(t)] = "release_lock"
          /\ ~exc[Main] => CalledBefore(Main, "report", "release_lock") /\ reported # NoRecord

\* A guarded pass that wrote a session file, reported and released.
C5_Witness ==
    /\ pc[Main] = "done" /\ ~args[Main].force /\ ~exc[Main]
    /\ Called(Main, "run_sanity_check") /\ Called(Main, "create_session_file")
    /\ Called(Main, "report") /\ Called(Main, "release_lock")

\* C6: in the record get_wind_down_data returns, mandatory_handoff is true
\* if and only if pending_work is not empty.
C6_MandatoryHandoff ==
    /\ piped # NoRecord => (piped.mandatory_handoff <=> piped.pending_work # << >>)
    /\ pc[Main] = "clean_close" => (data.mandatory_handoff <=> data.pending_work # << >>)

\* Pending work, a Handoff Writer that failed, a sanity status of error.
C6_Witness ==
    /\ piped # NoRecord
    /\ piped.mandatory_handoff /\ piped.session_file = "None"
    /\ piped.sanity_check.status = "error" /\ piped.uncommitted_changes # << >>

\* C7: in the record get_wind_down_data returns, clean_close is false if
\* and only if the status of the SanityReport is error.
C7_CleanClose ==
    piped # NoRecord => (piped.clean_close = FALSE <=> piped.sanity_check.status = "error")

\* A status outside the five of the data model, with pending work: clean.
C7_Witness ==
    /\ piped # NoRecord
    /\ piped.sanity_check.status = "degraded" /\ piped.clean_close
    /\ piped.pending_work # << >> /\ piped.uncommitted_changes # << >>

\* The exit code the claim gives a status.
ClaimedStatusCode(st) == IF st = "error" THEN 2 ELSE IF st = "warning" THEN 1 ELSE 0

\* C8: outside --verify an invocation exits with 3 when the workspace is
\* not found, else with 4 when the guard is not bypassed and blocked, else
\* when the pass reaches the Reporter, with 2, 1 or 0 as the status handed
\* to the Reporter is error, warning or anything else.
C8_ExitCode ==
    pc[Main] = "done" /\ ~args[Main].verify =>
        IF agent_path[Main] = NotFound THEN exit_code[Main] = 3
        ELSE IF ~args[Main].force /\ Called(Main, "return False") THEN exit_code[Main] = 4
        ELSE Called(Main, "report") =>
                exit_code[Main] = ClaimedStatusCode(StatusOf(data.sanity_check))

\* The fields get_wind_down_data produced.
Produced(d) == [d EXCEPT !.extension_output = ""]

HookFailed(h) == h.kind \in {"load_raises", "returns_non_dict", "call_raises"}

\* C9: when the extension exists and fails to load, raises, or returns what
\* is no mapping, main goes on with the fields get_wind_down_data produced,
\* unchanged, and a warning is on stderr whatever --verbose says; when the
\* extension is absent the record is unchanged and nothing is printed.
C9_HookFailure ==
    hooked # NoRecord =>
        /\ HookFailed(hooked) => Produced(data) = Produced(piped) /\ stderr # << >>
        /\ hooked.kind = "absent" => data = piped /\ stderr = << >>
        /\ pc[Main] = "done" => Called(Main, "report")

\* C10: once the workspace is found and the guard is passed, whatever the
\* collectors meet, all of them run, the Reporter prints a record and the
\* invocation exits with 0, 1 or 2 with no exception leaving main (passes in
\* which a later stage raised are left aside).
C10_GracefulDegradation ==
    /\ pc[Main] = "done" /\ Called(Main, "get_session_state")
    /\ ~(exc[Main] /\ Called(Main, "handoff_rule"))
    =>  /\ ~exc[Main]
        /\ \A c \in Collectors \ {"run_sanity_check"} : Called(Main, c)
        /\ ~args[Main].skip_sanity => Called(Main, "run_sanity_check")
        /\ reported # NoRecord
        /\ exit_code[Main] \in {0, 1, 2}

\* The Handoff Writer returned None: mkdir or write_text failed.
WriterFailed == met.writer \in {"mkdir_fails", "write_fails"}

\* C11: when pending work is not empty and the Handoff Writer cannot create
\* sessions/ or cannot write the session file, the record keeps session_file
\* unset and mandatory_handoff true, the clean-close rule, the identity, the
\* extension hook and the Reporter still run, and the exit code is the one
\* the sanity status gives.
C11_WriterFailureNonFatal ==
    pc[Main] = "done" /\ WriterFailed =>
        /\ data.pending_work # << >>
        /\ data.session_file = "None" /\ data.mandatory_handoff
        /\ piped # NoRecord
        /\ Called(Main, "call_extension_hook")
        /\ Called(Main, "report") /\ reported # NoRecord
        /\ exit_code[Main] = ClaimedStatusCode(StatusOf(data.sanity_check))

\* C12: when the sanity program is found and running it times out or fails,
\* the SanityReport is {error, 0, 0, 0, 1}, clean_close is false and the
\* exit code is 2, pending work or not; the pending-work scan and the
\* mandatory-handoff rule still take place.
C12_SanityInvocationFailure ==
    pc[Main] = "done" /\ met.sanity = "run_error" =>
        /\ Called(Main, "scan_pending_work") /\ Called(Main, "handoff_rule")
        /\ piped # NoRecord
        /\ piped.sanity_check = SanityReport("error", 0, 0, 0, 1)
        /\ piped.clean_close = FALSE
        /\ exit_code[Main] = 2

\* What the claim has the fallback decide from the lock file as it was found.
C13_Decision ==
    \A p \in Procs :
        platform = "none" /\ pc[p] = "acq_lock" /\ pc'[p] # "acq_lock" =>
            (pc'[p] = "blocked" <=> lock_seen[p] = "recent")

\* C13: with no locking primitive, acquire_lock returns false if and only
\* if the lock file existed before the call and was modified less than 300 s
\* before it; absent or stale, acquire_lock returns true, the marker written.
C13_FallbackHeuristic ==
    /\ [](\A p \in Procs :
            platform = "none" /\ Called(p, "return True") =>
                lock_seen[p] \in {"absent", "stale"})
    /\ [][C13_Decision]_vars

\* The markers of a kind in a text, counted position by position.
Markers(stdout, kinds) == Cardinality({k \in 1..Len(stdout) : stdout[k] \in kinds})

\* C14: on output that is no structured data, the report has checks_passed =
\* the success markers, checks_total = success + failure markers, warnings =
\* the failure markers, errors = 0, and status healthy exactly when there is
\* no failure marker, else warning; a second call on the same output returns
\* the same report.
C14_TextFallback ==
    call # NoRecord /\ call.fn = "text_fallback" /\ call.times > 0 =>
        LET good == Markers(call.stdout, {"[+]", "PASS"})
            bad == Markers(call.stdout, {"[-]", "FAIL"})
        IN  /\ returned.checks_passed = good
            /\ returned.checks_total = good + bad
            /\ returned.warnings = bad
            /\ returned.errors = 0
            /\ returned.status = "healthy" <=> bad = 0
            /\ returned.status = "warning" <=> bad # 0

\* Called twice on MaxWords success markers and nothing else: healthy.
C14_Witness ==
    /\ call # NoRecord /\ call.fn = "text_fallback" /\ call.times = MaxCalls
    /\ Len(call.stdout) = MaxWords
    /\ \A k \in 1..Len(call.stdout) : call.stdout[k] \in {"[+]", "PASS"}
    /\ returned.status = "healthy" /\ returned.checks_passed = MaxWords

\* The directories the claim has the Locator examine: the start and its
\* parents, four in all, fewer when the filesystem root comes first.
Examined(start) == {d \in 0..start : start - d < 4}

\* The nearest of them that holds the marker directory, if any does.
Nearest(start) ==
    IF \E d \in Examined(start) : HasMarker(d)
    THEN CHOOSE d \in Examined(start) :
            HasMarker(d) /\ \A e \in Examined(start) : HasMarker(e) => e <= d
    ELSE NotFound

C15_Located ==
    pc[Main] = "locating" /\ pc'[Main] # "locating" =>
        agent_path'[Main] = Nearest(start_dir[Main])

\* C15: find_agent_root examines the start directory and its parents, at most
\* 4 directories, and returns the nearest that holds the marker directory,
\* else not-found; the run then exits 3 and has acquired no lock, created no
\* lock file, run no collector and written no session file.
C15_LocatorBound ==
    /\ [](pc[Main] = "done" /\ ~args[Main].verify /\ agent_path[Main] = NotFound =>
            /\ exit_code[Main] = 3
            /\ ~Called(Main, "acquire_lock")
            /\ ~lock_file[Main] /\ lock_fd[Main] = None
            /\ \A c \in Collectors \cup {"create_session_file"} : ~Called(Main, c)
            /\ sessions = << >>)
    /\ [][C15_Located]_vars

\* Started more than four levels below the marker: not found, exit 3.
C15_Witness ==
    /\ pc[Main] = "done" /\ Called(Main, "find_agent_root")
    /\ agent_path[Main] = NotFound /\ exit_code[Main] = 3

\* The text the claim gives a duration of s >= 0 seconds.
ClaimedDuration(s) ==
    LET h == s \div 3600
        m == (s % 3600) \div 60
    IN  IF h > 0 THEN ToString(h) \o "h " \o ToString(m) \o "m"
        ELSE IF m > 0 THEN ToString(m) \o "m"
        ELSE ToString(s) \o "s"

\* The text reads as some elapsed time of one second or more.
ReadsAsElapsed(text) == \E t \in 1..(45 * MaxSteps) : text = ClaimedDuration(t)

\* C16: format_duration gives "unknown" for an absent duration and, for
\* s >= 0 seconds, "<h>h <m>m", "<m>m" or "<s>s" as the claim lays out (90
\* minutes: "1h 30m", 45 minutes: "45m"); for a negative duration, started
\* lying after now, the text does not read as time that has elapsed.
C16_DurationFormatting ==
    call # NoRecord /\ call.fn = "format_duration" /\ call.times > 0 =>
        IF call.seconds = Nothing THEN returned.text = "unknown"
        ELSE LET s == call.seconds[1] IN
             /\ s = 5400 => returned.text = "1h 30m"
             /\ s = 2700 => returned.text = "45m"
             /\ s >= 0 => returned.text = ClaimedDuration(s)
             /\ s < 0 => ~ReadsAsElapsed(returned.text)

\* The pass has left the session-state stage behind: the sanity stage has
\* put its report, or its skip, in the record.
PastSessionState == data # NoRecord /\ data.sanity_check # InitialData.sanity_check

\* C17: whatever session_state.json holds (nothing, no JSON, JSON that is no
\* object, a current_session that is none, no started, a started that is no
\* timestamp, no string, or a timestamp with an offset) the pipeline goes on
\* to the next stage; duration_seconds is set exactly when started parses as
\* a timestamp and stays unknown otherwise.
C17_SessionStateNeverRaises ==
    Called(Main, "get_session_state") =>
        /\ exc[Main] => PastSessionState
        /\ data.duration_seconds # Nothing <=>
                data.started \in {"started_naive", "started_aware"}

\* The five statuses of the data model.
ReportStatuses == {"healthy", "warning", "error", "skipped", "unknown"}

\* C18: in every ResultRecord, whichever path produced its SanityReport
\* (skipped, no program found, structured output, text fallback, invocation
\* error), status is one of the five, checks_passed >= 0, checks_total >=
\* checks_passed, warnings >= 0 and errors >= 0.
C18_SanityReportWellFormed ==
    piped # NoRecord =>
        /\ piped.sanity_check.status \in ReportStatuses
        /\ piped.sanity_check.checks_passed >= 0
        /\ piped.sanity_check.checks_total >= piped.sanity_check.checks_passed
        /\ piped.sanity_check.warnings >= 0
        /\ piped.sanity_check.errors >= 0

\* C19: in one invocation the Handoff Writer is called at most once, and it
\* is called if and only if the pending-work sequence is not empty; when it
\* succeeds exactly one file under sessions/ is created or replaced and
\* session_file holds its path; when pending work is empty no session file
\* is written and session_file stays unset.
C19_SessionFileDiscipline ==
    /\ Count(Main, "create_session_file") <= 1
    /\ data = NoRecord => ~Called(Main, "create_session_file")
    /\ pc[Main] = "done" /\ data # NoRecord =>
            (Called(Main, "create_session_file") <=> data.pending_work # << >>)
    /\ met.writer = "written" =>
            /\ Cardinality(DOMAIN sessions) = 1
            /\ pc[Main] # "handoff" => data.session_file = SessionPath
    /\ pc[Main] = "done" /\ data # NoRecord /\ data.pending_work = << >> =>
            sessions = << >> /\ data.session_file = "None"

\* One step of the Handoff Writers, as the claim has it.
C20_Step ==
    \A p \in Procs :
        \* the path is the minute read from the clock
        /\ pc[p] = "idle" /\ pc'[p] = "write_open" => session_id'[p] = Minute(clock)
        \* no file is deleted, and none of another minute is touched
        /\ pc'[p] # pc[p] =>
            \A id \in DOMAIN sessions :
                /\ id \in DOMAIN sessions'
                /\ id # session_id'[p] => sessions'[id] = sessions[id]
        \* a write leaves in the file what it wrote, and nothing else
        /\ pc[p] = "write_flush" /\ pc'[p] = "done" =>
            sessions'[session_id[p]] = draft[p]

\* C20: the session file path follows from the workspace and the current
\* date and minute alone; an invocation never modifies or deletes a session
\* file of another minute; two handoff writes in the same minute go to the
\* same file and the later one replaces the earlier one entirely.
C20_SameMinuteCollisions == [][C20_Step]_vars

\* C21: acquire_lock writes the owner marker only when it returns true, and
\* while an invocation holds the lock the lock file exists and holds that
\* invocation's marker: an attempt that is blocked changes neither the
\* existence nor the content of the lock file.
C21_OwnerMarkerIntegrity ==
    platform = "fcntl" =>
        \A p \in Procs :
            /\ (\E i \in Inodes : content[i] = p) => Called(p, "return True")
            /\ LiveLockHandle(p) => dirent # None /\ content[dirent] = p

\* C22: release_lock of one invocation never unlinks a lock file on which
\* another invocation holds the advisory lock; equivalently, whenever an
\* invocation holds the lock, the file at the lock path is the file it locked.
C22_ReleaseOwnLock ==
    /\ [](platform = "fcntl" =>
            \A p \in Procs : LiveLockHandle(p) => dirent = lock_fd[p])
    /\ [][\A a \in Procs :
            (pc[a] = "rel_unlink" /\ pc'[a] = "exit"
                /\ dirent # None /\ dirent' = None)
            => flock[dirent] \in {None, a}]_vars
====
